---- MODULE Spec2Model ----
(***************************************************************************)
(* The event envelope of unison_spec/events.py: construction (pydantic     *)
(* field validation with the two class validators and the variants'        *)
(* __init__ defaulting), expiry, and routing-key derivation; and the       *)
(* health poll of qa/test_smoke.py.                                        *)
(*                                                                         *)
(* Python values are encoded as follows.                                   *)
(*   - a str is a TLA+ string; Absent marks a keyword argument that was    *)
(*     not passed, None is Python's None;                                  *)
(*   - a value of an enum-typed field is a record [type, value]: type is   *)
(*     the enum class for a member (EventType.X), "str" for a plain str;   *)
(*     Missing stands for an argument that was not passed and NoneObj for  *)
(*     None where such a value is expected;                                *)
(*   - an Optional[int] is <<>> for None and <<n>> for the integer n; a    *)
(*     float (confidence) is such a tuple too, counted in tenths;          *)
(*   - a dict is a function from its keys to their values;                 *)
(*   - a datetime is an integer number of ticks (TicksPerSecond ticks to   *)
(*     the second) on the naive-UTC clock datetime.utcnow() reads.         *)
(***************************************************************************)
EXTENDS Integers, Sequences, FiniteSets, TLC

VARIABLES
    envs,       \* the envelopes constructed so far, in order of construction
    now,        \* the clock datetime.utcnow() reads, in ticks
    uuidCount,  \* how many times uuid.uuid4() has been called
    last,       \* the most recent call and what the caller observed of it
    health      \* the frame of wait_for_health and the clock time.time() reads

vars == <<envs, now, uuidCount, last, health>>

---------------------------------------------------------------------------
(* Bounds of the model. *)

MaxUuids == 2
MaxEnvs == 2
MaxSeconds == 6
TicksPerSecond == 2
MaxTicks == MaxSeconds * TicksPerSecond
MaxTimeout == 3
MaxCalls == 2

---------------------------------------------------------------------------
(* Python values. *)

Absent == "<absent>"
None == "<None>"
Missing == [type |-> "absent", value |-> ""]
NoneObj == [type |-> "NoneType", value |-> ""]
PyEnum(class, v) == [type |-> class, value |-> v]
PyStr(v) == [type |-> "str", value |-> v]
NoInt == <<>>
EmptyDict == <<>>

uuid4_once(n) == "uuid4-" \o ToString(1)

\* uuid.uuid4() rendered as a str: the n-th call yields a value no other call yields.
uuid4(n) == "uuid4-" \o ToString(n)

---------------------------------------------------------------------------
(* The taxonomies. *)

INTENT_RECEIVED == "intent.received"
CONTEXT_UPDATED == "context.updated"
EXPERIENCE_GENERATED == "experience.generated"
GOAL_CREATED == "goal.created"

\* EventType, by the groups its declaration is laid out in.
IntentTypes ==
    { "intent.received", "intent.processed", "intent.decomposed", "intent.failed" }
ContextTypes ==
    { "context.updated", "context.query", "context.response", "context.merged" }
GoalTypes ==
    { "goal.created", "goal.updated", "goal.completed", "goal.failed", "goal.cancelled" }
ExperienceTypes ==
    { "experience.generated", "experience.adapted", "experience.interaction",
      "experience.rendered" }
VdiTypes ==
    { "vdi.session.created", "vdi.session.destroyed", "vdi.display.updated",
      "vdi.interaction" }
IoTypes ==
    { "speech.processed", "vision.processed", "io.request", "io.response" }
InferenceTypes ==
    { "inference.request", "inference.response", "inference.completed",
      "inference.failed" }
SystemTypes ==
    { "service.health", "service.metrics", "service.started", "service.stopped",
      "system.alert", "system.error" }

EventType ==
    IntentTypes \cup ContextTypes \cup GoalTypes \cup ExperienceTypes \cup VdiTypes
        \cup IoTypes \cup InferenceTypes \cup SystemTypes

EventPriority == { "low", "normal", "high", "critical", "urgent" }

Classes == { "EventEnvelope", "IntentEvent", "ContextEvent", "ExperienceEvent", "GoalEvent" }

\* The event type a variant's __init__ puts in when the caller passed none.
CanonicalType(cls) ==
    CASE cls = "IntentEvent" -> INTENT_RECEIVED
      [] cls = "ContextEvent" -> CONTEXT_UPDATED
      [] cls = "ExperienceEvent" -> EXPERIENCE_GENERATED
      [] cls = "GoalEvent" -> GOAL_CREATED

\* The required (Field(...)) domain fields each class adds to the envelope's.
RequiredDomainFields(cls) ==
    CASE cls = "EventEnvelope" -> {}
      [] cls = "IntentEvent" -> { "person_id", "expression" }
      [] cls = "ContextEvent" -> { "person_id", "context_type" }
      [] cls = "ExperienceEvent" -> { "experience_id", "person_id", "experience_type" }
      [] cls = "GoalEvent" -> { "goal_id", "person_id", "goal_type" }

---------------------------------------------------------------------------
(* Validators. *)

\* topic_mapping of validate_topic_format. Its keys are EventType members; a member
\* is a str with str's hash and equality, so a lookup by the member's value finds it.
topic_mapping ==
    ( "intent.received" :> "unison.intent.received" ) @@
    ( "intent.processed" :> "unison.intent.processed" ) @@
    ( "intent.decomposed" :> "unison.intent.decomposed" ) @@
    ( "intent.failed" :> "unison.intent.failed" ) @@
    ( "context.updated" :> "unison.context.updated" ) @@
    ( "context.query" :> "unison.context.query" ) @@
    ( "context.response" :> "unison.context.response" ) @@
    ( "goal.created" :> "unison.goal.created" ) @@
    ( "goal.updated" :> "unison.goal.updated" ) @@
    ( "goal.completed" :> "unison.goal.completed" ) @@
    ( "goal.failed" :> "unison.goal.failed" ) @@
    ( "experience.generated" :> "unison.experience.generated" ) @@
    ( "experience.adapted" :> "unison.experience.adapted" ) @@
    ( "experience.interaction" :> "unison.experience.interaction" ) @@
    ( "service.health" :> "unison.service.health" ) @@
    ( "service.metrics" :> "unison.service.metrics" ) @@
    ( "system.alert" :> "unison.system.alert" )

\* bool(x) of values.get('event_type'): None when the field failed validation.
Truthy(x) == x # NoneObj /\ x.value # ""

\* @validator('topic'): values holds the fields validated before topic.
validate_topic_format_any(v, values) ==
    LET event_type == values.event_type
    IN  IF Truthy(event_type) /\ event_type.value \in DOMAIN topic_mapping
        THEN topic_mapping[event_type.value]
        ELSE v

validate_topic_format_identity(v, values) ==
    LET event_type == values.event_type
    IN  IF Truthy(event_type) /\ event_type.type = "EventType"
           /\ event_type.value \in DOMAIN topic_mapping /\ v = "auto"
        THEN topic_mapping[event_type.value]
        ELSE v

validate_topic_format(v, values) ==
    LET event_type == values.event_type
    IN  IF Truthy(event_type)
        THEN IF event_type.value \in DOMAIN topic_mapping /\ v = "auto"
             THEN topic_mapping[event_type.value]
             ELSE v
        ELSE v

\* @validator('correlation_id'); uuid is what uuid.uuid4() yields if it is called.
generate_correlation_id_if_missing(v, uuid) ==
    IF v = None THEN uuid ELSE v

allowed_states == { "pending", "active", "completed", "failed", "cancelled" }

validate_goal_state_accept(v) == [ok |-> TRUE, value |-> v]

\* @validator('goal_state') of GoalEvent: raises ValueError outside allowed_states.
validate_goal_state(v) ==
    IF v \notin allowed_states
    THEN [ok |-> FALSE, value |-> v]
    ELSE [ok |-> TRUE, value |-> v]

---------------------------------------------------------------------------
(* Field validation. Each yields [ok, value]; a validator declared without *)
(* always=True is not run on a default.                                    *)

\* Config.use_enum_values: the model is populated with the member's value, a plain str.
use_enum_values(member) == PyStr(member.value)

\* A field of enum type: a member, or a str equal to a member's value, is accepted.
EnumField(v, class, members) ==
    IF v.type \in { class, "str" } /\ v.value \in members
    THEN [ok |-> TRUE, value |-> use_enum_values(v)]
    ELSE [ok |-> FALSE, value |-> v]

\* event_type: EventType = Field(...)
Field_event_type(kw) ==
    IF kw.event_type = Missing
    THEN [ok |-> FALSE, value |-> Missing]
    ELSE EnumField(kw.event_type, "EventType", EventType)

\* source_service: str = Field(...)
Field_source_service(kw) ==
    [ok |-> kw.source_service # Absent, value |-> kw.source_service]

\* correlation_id: Optional[str] = Field(default=None) with its validator.
Field_correlation_id(kw, uuid) ==
    IF kw.correlation_id = Absent
    THEN [ok |-> TRUE, value |-> None, uuids |-> 0]
    ELSE [ok |-> TRUE,
          value |-> generate_correlation_id_if_missing(kw.correlation_id, uuid),
          uuids |-> IF kw.correlation_id = None THEN 1 ELSE 0]

\* topic: str = Field(...) with its validator.
Field_topic(kw, values) ==
    IF kw.topic = Absent
    THEN [ok |-> FALSE, value |-> Absent]
    ELSE [ok |-> TRUE, value |-> validate_topic_format(kw.topic, values)]

Field_priority_enum_everywhere(cls, kw) ==
    IF kw.priority = Missing
    THEN [ok |-> TRUE, value |-> PyEnum("EventPriority", "normal")]
    ELSE EnumField(kw.priority, "EventPriority", EventPriority)

\* priority: EventPriority (default EventPriority.NORMAL, a member, kept as it is);
\* GoalEvent redeclares it as priority: str = Field(default="normal").
Field_priority(cls, kw) ==
    IF cls = "GoalEvent"
    THEN IF kw.priority = Missing
         THEN [ok |-> TRUE, value |-> PyStr("normal")]
         ELSE [ok |-> TRUE, value |-> PyStr(kw.priority.value)]
    ELSE IF kw.priority = Missing
         THEN [ok |-> TRUE, value |-> PyEnum("EventPriority", "normal")]
         ELSE EnumField(kw.priority, "EventPriority", EventPriority)

\* goal_state: str = Field(default="pending") with its validator (GoalEvent only).
Field_goal_state(cls, kw) ==
    IF cls # "GoalEvent"
    THEN [ok |-> TRUE, value |-> Absent]
    ELSE IF kw.goal_state = Absent
         THEN [ok |-> TRUE, value |-> "pending"]
         ELSE validate_goal_state(kw.goal_state)

\* The bounds ge=0.0 and le=1.0 of IntentEvent.confidence, in tenths.
confidence_ge == 0
confidence_le == 10

Field_confidence_clamp(cls, kw) ==
    IF cls # "IntentEvent"
    THEN [ok |-> TRUE, value |-> NoInt]
    ELSE IF kw.confidence = NoInt
         THEN [ok |-> TRUE, value |-> <<0>>]
         ELSE [ok |-> TRUE,
               value |-> IF kw.confidence[1] < confidence_ge THEN <<confidence_ge>>
                         ELSE IF kw.confidence[1] > confidence_le THEN <<confidence_le>>
                         ELSE kw.confidence]

\* confidence: float = Field(default=0.0, ge=0.0, le=1.0) (IntentEvent only; the
\* other classes ignore the argument).
Field_confidence(cls, kw) ==
    IF cls # "IntentEvent"
    THEN [ok |-> TRUE, value |-> NoInt]
    ELSE IF kw.confidence = NoInt
         THEN [ok |-> TRUE, value |-> <<0>>]
         ELSE [ok |-> kw.confidence[1] >= confidence_ge /\ kw.confidence[1] <= confidence_le,
               value |-> kw.confidence]

---------------------------------------------------------------------------
(* Construction. *)

VariantInit_overwrite(cls, kw) ==
    IF cls = "EventEnvelope"
    THEN kw
    ELSE [kw EXCEPT
            !.event_type = PyEnum("EventType", CanonicalType(cls)),
            !.topic = IF @ = Absent THEN "auto" ELSE @]

VariantInit_copy_paste(cls, kw) ==
    IF cls = "EventEnvelope"
    THEN kw
    ELSE [kw EXCEPT
            !.event_type = IF @ = Missing THEN PyEnum("EventType", INTENT_RECEIVED) ELSE @,
            !.topic = IF @ = Absent THEN "auto" ELSE @]

\* IntentEvent/ContextEvent/ExperienceEvent/GoalEvent.__init__ before super().__init__.
VariantInit(cls, kw) ==
    IF cls = "EventEnvelope"
    THEN kw
    ELSE [kw EXCEPT
            !.event_type = IF @ = Missing THEN PyEnum("EventType", CanonicalType(cls)) ELSE @,
            !.topic = IF @ = Absent THEN "auto" ELSE @]

\* BaseModel.__init__: every field is validated in declaration order, the errors of
\* all fields are collected, and the object exists only if there is none.
ModelInit(cls, kwargs, clock, uuids) ==
    LET kw == VariantInit(cls, kwargs)
        idUuids == IF kw.event_id = Absent THEN 1 ELSE 0
        event_id == IF kw.event_id = Absent THEN uuid4(uuids + 1) ELSE kw.event_id
        event_type == Field_event_type(kw)
        timestamp == IF kw.timestamp = NoInt THEN clock ELSE kw.timestamp[1]
        source_service == Field_source_service(kw)
        correlation_id == Field_correlation_id(kw, uuid4(uuids + idUuids + 1))
        values == [event_type |-> IF event_type.ok THEN event_type.value ELSE NoneObj]
        topic == Field_topic(kw, values)
        priority == Field_priority(cls, kw)
        goal_state == Field_goal_state(cls, kw)
        confidence == Field_confidence(cls, kw)
        errors ==
            (IF event_type.ok THEN {} ELSE { "event_type" }) \cup
            (IF source_service.ok THEN {} ELSE { "source_service" }) \cup
            (IF topic.ok THEN {} ELSE { "topic" }) \cup
            (IF priority.ok THEN {} ELSE { "priority" }) \cup
            (IF goal_state.ok THEN {} ELSE { "goal_state" }) \cup
            (IF confidence.ok THEN {} ELSE { "confidence" }) \cup
            (RequiredDomainFields(cls) \ kw.given)
    IN  [ errors |-> errors,
          uuids |-> uuids + idUuids + correlation_id.uuids,
          obj |-> [ cls |-> cls,
                    event_id |-> event_id,
                    event_type |-> event_type.value,
                    timestamp |-> timestamp,
                    source_service |-> source_service.value,
                    source_instance |-> "default",
                    correlation_id |-> correlation_id.value,
                    causation_id |-> IF kw.causation_id = Absent THEN None
                                     ELSE kw.causation_id,
                    topic |-> topic.value,
                    priority |-> priority.value,
                    ttl |-> kw.ttl,
                    data |-> kw.data,
                    metadata |-> kw.metadata,
                    goal_state |-> goal_state.value,
                    confidence |-> confidence.value,
                    given |-> kw.given \cap RequiredDomainFields(cls) ] ]

dict_shared(n) == IF n > 0 THEN 1 ELSE n

\* default_factory=dict, and the validation of a dict argument: the n-th call yields
\* a dict object that no other call yields.
dict(n) == n

\* The envelope whose data and metadata are the dict objects made for it, when n
\* envelopes were made before it.
Allocate(obj, n) ==
    [ f \in DOMAIN obj \cup { "data_id", "metadata_id" } |->
        IF f = "data_id" THEN dict(2 * n + 1)
        ELSE IF f = "metadata_id" THEN dict(2 * n + 2)
        ELSE obj[f] ]

Construct_partial(cls, kwargs) ==
    /\ uuidCount < MaxUuids
    /\ LET r == ModelInit(cls, kwargs, now, uuidCount)
       IN  /\ envs' = Append(envs, Allocate(r.obj, Len(envs)))
           /\ uuidCount' = r.uuids
           /\ last' = [ op |-> "construct", cls |-> cls, kwargs |-> kwargs,
                        errors |-> r.errors,
                        idx |-> IF r.errors = {} THEN Len(envs) + 1 ELSE 0 ]
    /\ UNCHANGED <<now, health>>

\* A caller constructs cls(**kwargs): a ValidationError naming the offending fields,
\* or a new envelope.
Construct(cls, kwargs) ==
    /\ uuidCount < MaxUuids
    /\ LET r == ModelInit(cls, kwargs, now, uuidCount)
       IN  /\ envs' = IF r.errors = {}
                      THEN Append(envs, Allocate(r.obj, Len(envs)))
                      ELSE envs
           /\ uuidCount' = r.uuids
           /\ last' = [ op |-> "construct", cls |-> cls, kwargs |-> kwargs,
                        errors |-> r.errors,
                        idx |-> IF r.errors = {} THEN Len(envs) + 1 ELSE 0 ]
    /\ UNCHANGED <<now, health>>

---------------------------------------------------------------------------
(* Derived operations. A call's outcome is [raised, value]: raised names the *)
(* exception that left the call, "" when it returned value.                 *)

Returned(v) == [raised |-> "", value |-> v]
Raised(exc) == [raised |-> exc, value |-> ""]

\* (datetime.utcnow() - self.timestamp), in ticks.
Elapsed(e, clock) == clock - e.timestamp

is_expired_ttl_or_zero(e, clock) ==
    Elapsed(e, clock) > (IF e.ttl = NoInt THEN 0 ELSE e.ttl[1]) * TicksPerSecond

is_expired_wrapping(e, clock) ==
    IF e.ttl = NoInt
    THEN FALSE
    ELSE (Elapsed(e, clock) % (4 * TicksPerSecond)) > e.ttl[1] * TicksPerSecond

is_expired_positive_ttl_only(e, clock) ==
    IF e.ttl = NoInt \/ e.ttl[1] <= 0
    THEN FALSE
    ELSE Elapsed(e, clock) > e.ttl[1] * TicksPerSecond

is_expired_at_ttl(e, clock) ==
    IF e.ttl = NoInt
    THEN FALSE
    ELSE Elapsed(e, clock) >= e.ttl[1] * TicksPerSecond

\* EventEnvelope.is_expired: total_seconds() > ttl, both sides scaled to ticks.
is_expired(e, clock) ==
    IF e.ttl = NoInt
    THEN FALSE
    ELSE Elapsed(e, clock) > e.ttl[1] * TicksPerSecond

\* EventEnvelope.to_routing_key: .value exists on an EventType member, not on a str.
to_routing_key(e) ==
    IF e.event_type.type = "EventType"
    THEN Returned(e.source_service \o "." \o e.event_type.value)
    ELSE Raised("AttributeError")

\* Python's `a or b` on an Optional[str]: None and "" are falsy.
Or(a, b) == IF a = None \/ a = "" THEN b ELSE a

trace_context_raw(e) ==
    [ event_id |-> e.event_id,
      correlation_id |-> e.correlation_id,
      causation_id |-> e.causation_id,
      source_service |-> e.source_service,
      source_instance |-> e.source_instance ]

\* EventEnvelope.trace_context
trace_context(e) ==
    [ event_id |-> e.event_id,
      correlation_id |-> Or(e.correlation_id, e.event_id),
      causation_id |-> Or(e.causation_id, ""),
      source_service |-> e.source_service,
      source_instance |-> e.source_instance ]

add_metadata_into_data(e, key, value) ==
    [e EXCEPT !.data = (key :> value) @@ @]

\* EventEnvelope.add_metadata: self.metadata[key] = value
add_metadata(e, key, value) ==
    [e EXCEPT !.metadata = (key :> value) @@ @]

add_data_fresh_dict(e, key, value) ==
    [e EXCEPT !.data = (key :> value)]

\* EventEnvelope.add_data: self.data[key] = value
add_data(e, key, value) ==
    [e EXCEPT !.data = (key :> value) @@ @]

---------------------------------------------------------------------------
(* The wire form. A serialized datetime is [instant, suffix]: the digits of *)
(* the instant and the UTC designator that follows them.                   *)

\* json_encoders: datetime -> v.isoformat(). The timestamp is naive (utcnow), and
\* isoformat() of a naive datetime ends with the digits: no "Z", no offset.
isoformat(t) == [instant |-> t, suffix |-> ""]

\* Parsing a serialized datetime back into the naive datetime it was written from.
parse_datetime(w) == w.instant

\* The JSON object of an envelope: every field by name; use_enum_values and the JSON
\* encoding leave event_type and priority as their string values.
model_dump_json(e) ==
    [ event_id |-> e.event_id,
      event_type |-> e.event_type.value,
      timestamp |-> isoformat(e.timestamp),
      source_service |-> e.source_service,
      source_instance |-> e.source_instance,
      correlation_id |-> e.correlation_id,
      causation_id |-> e.causation_id,
      topic |-> e.topic,
      priority |-> e.priority.value,
      ttl |-> e.ttl,
      data |-> e.data,
      metadata |-> e.metadata,
      goal_state |-> e.goal_state,
      confidence |-> e.confidence,
      given |-> e.given ]

\* The keyword arguments a consumer's cls(**json.loads(wire)) passes: every field of
\* the JSON object, null as None.
KwargsOfWire(w) ==
    [ event_id |-> w.event_id,
      event_type |-> PyStr(w.event_type),
      timestamp |-> <<parse_datetime(w.timestamp)>>,
      source_service |-> w.source_service,
      correlation_id |-> w.correlation_id,
      causation_id |-> w.causation_id,
      topic |-> w.topic,
      priority |-> PyStr(w.priority),
      ttl |-> w.ttl,
      data |-> w.data,
      metadata |-> w.metadata,
      goal_state |-> w.goal_state,
      confidence |-> w.confidence,
      given |-> w.given ]

---------------------------------------------------------------------------
(* wait_for_health of qa/test_smoke.py, one step per statement. health.pc  *)
(* is the statement about to run; time.time() is in whole seconds.         *)

\* What a poll can come back with: a status code, or the name of an exception.
StatusCodes == { "200", "404", "503" }
Exceptions == { "ConnectionError", "ReadTimeout" }

\* How long requests.get(..., timeout=3) and time.sleep(1) can take, in seconds.
GetDurations == { 0, 3 }
SleepDurations == { 1, 2 }

\* The caller's timeout argument.
Timeouts == 0..MaxTimeout

\* deadline = time.time() + timeout; last_error = None
WaitForHealthCall(timeout) ==
    /\ health.pc \in { "idle", "returned" }
    /\ health.calls < MaxCalls
    /\ health' = [health EXCEPT !.pc = "while", !.calls = @ + 1,
                                !.deadline = health.time + timeout,
                                !.polls = 0, !.last_error = None, !.resp = "none",
                                !.result = [raised |-> "", value |-> "none"]]
    /\ UNCHANGED <<envs, now, uuidCount, last>>

\* while time.time() < deadline: ... ; raise AssertionError(f"...: {last_error}")
WhileTest ==
    /\ health.pc = "while"
    /\ health' = IF health.time < health.deadline
                 THEN [health EXCEPT !.pc = "get", !.started = health.time]
                 ELSE [health EXCEPT !.pc = "raised",
                          !.result = [raised |-> "AssertionError",
                                      value |-> health.last_error]]
    /\ UNCHANGED <<envs, now, uuidCount, last>>

Get_uncaught(resp, d) ==
    /\ health.pc = "get"
    /\ health' =
         IF resp = "200"
         THEN [health EXCEPT !.pc = "returned", !.time = @ + d, !.resp = resp,
                  !.polls = @ + 1, !.result = [raised |-> "", value |-> "True"]]
         ELSE IF resp \in StatusCodes
         THEN [health EXCEPT !.pc = "sleep", !.time = @ + d, !.resp = resp,
                  !.polls = @ + 1, !.last_error = "status " \o resp]
         ELSE [health EXCEPT !.pc = "raised", !.time = @ + d, !.resp = resp,
                  !.polls = @ + 1, !.result = [raised |-> resp, value |-> resp]]
    /\ UNCHANGED <<envs, now, uuidCount, last>>

\* try: resp = requests.get(...); 200 returns True, another status is recorded;
\* except Exception as exc: last_error = str(exc)
Get(resp, d) ==
    /\ health.pc = "get"
    /\ health' =
         IF resp = "200"
         THEN [health EXCEPT !.pc = "returned", !.time = @ + d, !.resp = resp,
                  !.polls = @ + 1, !.result = [raised |-> "", value |-> "True"]]
         ELSE [health EXCEPT !.pc = "sleep", !.time = @ + d, !.resp = resp,
                  !.polls = @ + 1,
                  !.last_error = IF resp \in StatusCodes THEN "status " \o resp
                                 ELSE resp]
    /\ UNCHANGED <<envs, now, uuidCount, last>>

\* time.sleep(1)
Sleep(d) ==
    /\ health.pc = "sleep"
    /\ health' = [health EXCEPT !.pc = "while", !.time = @ + d]
    /\ UNCHANGED <<envs, now, uuidCount, last>>

---------------------------------------------------------------------------
(* Calls on a constructed envelope, and the passage of time. *)

\* What the dict object id holds after a method turned the envelope before into
\* after: the map of after that is this object and was changed, else held.
Held(id, held, before, after) ==
    IF before.data_id = id /\ after.data # before.data THEN after.data
    ELSE IF before.metadata_id = id /\ after.metadata # before.metadata THEN after.metadata
    ELSE held

\* What e shows after that method: each of its maps shows what its dict object holds.
Aliased(e, before, after) ==
    [e EXCEPT !.data = Held(e.data_id, @, before, after),
              !.metadata = Held(e.metadata_id, @, before, after)]

\* envs[i].add_metadata(key, value)
AddMetadataCall(i, key, value) ==
    /\ i \in 1..Len(envs)
    /\ LET after == add_metadata(envs[i], key, value)
       IN  envs' = [j \in 1..Len(envs) |->
                      Aliased(IF j = i THEN after ELSE envs[j], envs[i], after)]
    /\ last' = [ op |-> "add_metadata", idx |-> i, key |-> key, value |-> value ]
    /\ UNCHANGED <<now, uuidCount, health>>

\* envs[i].add_data(key, value)
AddDataCall(i, key, value) ==
    /\ i \in 1..Len(envs)
    /\ LET after == add_data(envs[i], key, value)
       IN  envs' = [j \in 1..Len(envs) |->
                      Aliased(IF j = i THEN after ELSE envs[j], envs[i], after)]
    /\ last' = [ op |-> "add_data", idx |-> i, key |-> key, value |-> value ]
    /\ UNCHANGED <<now, uuidCount, health>>

\* envs[i].trace_context()
TraceContextCall(i) ==
    /\ i \in 1..Len(envs)
    /\ last' = [ op |-> "trace_context", idx |-> i, result |-> trace_context(envs[i]) ]
    /\ UNCHANGED <<envs, now, uuidCount, health>>

\* envs[i] is serialized and the consumer deserializes the result as the same class;
\* copy is the consumer's envelope (errors tells whether it got one).
RoundTripCall(i) ==
    /\ i \in 1..Len(envs)
    /\ LET wire == model_dump_json(envs[i])
           r == ModelInit(envs[i].cls, KwargsOfWire(wire), now, uuidCount)
       IN  /\ r.uuids <= MaxUuids
           /\ uuidCount' = r.uuids
           /\ last' = [ op |-> "round_trip", idx |-> i, wire |-> wire,
                        errors |-> r.errors, copy |-> r.obj ]
    /\ UNCHANGED <<envs, now, health>>

\* envs[i].<name> = value: the model is not frozen and does not validate assignment,
\* so BaseModel.__setattr__ stores the value.
SetAttrCall(i, name, value) ==
    /\ i \in 1..Len(envs)
    /\ envs' = [envs EXCEPT ![i][name] = value]
    /\ last' = [ op |-> "setattr", idx |-> i, name |-> name, value |-> value ]
    /\ UNCHANGED <<now, uuidCount, health>>

IsExpiredCall_touch(i) ==
    /\ i \in 1..Len(envs)
    /\ envs' = [envs EXCEPT ![i].timestamp = now]
    /\ last' = [ op |-> "is_expired", idx |-> i,
                 result |-> Returned(is_expired(envs[i], now)),
                 again |-> last.op = "is_expired" /\ last.idx = i ]
    /\ UNCHANGED <<now, uuidCount, health>>

\* envs[i].is_expired() at the current time; again tells that the call before it
\* was the same call (no time passes between two calls).
IsExpiredCall(i) ==
    /\ i \in 1..Len(envs)
    /\ last' = [ op |-> "is_expired", idx |-> i,
                 result |-> Returned(is_expired(envs[i], now)),
                 again |-> last.op = "is_expired" /\ last.idx = i ]
    /\ UNCHANGED <<envs, now, uuidCount, health>>

\* envs[i].to_routing_key()
ToRoutingKeyCall(i) ==
    /\ i \in 1..Len(envs)
    /\ last' = [ op |-> "to_routing_key", idx |-> i, result |-> to_routing_key(envs[i]) ]
    /\ UNCHANGED <<envs, now, uuidCount, health>>

\* Time passes: datetime.utcnow() reads a later instant.
Tick ==
    /\ now < MaxTicks
    /\ now' = now + 1
    /\ last' = [op |-> "tick"]
    /\ UNCHANGED <<envs, uuidCount, health>>

---------------------------------------------------------------------------
(* The keyword arguments callers pass. *)

EventTypeArgs ==
    { Missing, PyStr("bogus.type"), PyStr("goal.created") }
        \cup { PyEnum("EventType", t) : t \in EventType }

TopicArgs == { Absent, "auto", "AUTO", "custom.topic" }

CorrelationArgs == { Absent, None, "corr-1" }

GoalStateArgs(cls) ==
    IF cls = "GoalEvent" THEN { Absent, "bogus" } \cup allowed_states ELSE { Absent }

GivenArgs(cls) == { {}, RequiredDomainFields(cls) }

ConfidenceArgs(cls) ==
    IF cls = "IntentEvent" THEN { NoInt, <<-1>>, <<0>>, <<5>>, <<10>>, <<15>> } ELSE { NoInt }

\* The full range of arguments to a constructor.
ConstructKwargs(cls) ==
    [ event_id : { Absent },
      event_type : EventTypeArgs,
      timestamp : { NoInt },
      source_service : { Absent, "orchestrator" },
      correlation_id : CorrelationArgs,
      causation_id : { Absent },
      topic : TopicArgs,
      priority : { Missing, PyStr("bogus"), PyStr("high") },
      ttl : { NoInt },
      data : { EmptyDict },
      metadata : { EmptyDict },
      goal_state : GoalStateArgs(cls),
      confidence : ConfidenceArgs(cls),
      given : GivenArgs(cls) ]

\* Arguments that vary what expiry reads: ttl and timestamp.
LifecycleKwargs(cls) ==
    [ event_id : { Absent },
      event_type : { Missing, PyEnum("EventType", INTENT_RECEIVED) },
      timestamp : { NoInt, <<0>>, <<MaxTicks>> },
      source_service : { "orchestrator" },
      correlation_id : { Absent },
      causation_id : { Absent },
      topic : { "auto" },
      priority : { Missing },
      ttl : { NoInt, <<-1>>, <<0>>, <<5>> },
      data : { EmptyDict },
      metadata : { EmptyDict },
      goal_state : { Absent },
      confidence : { NoInt },
      given : { RequiredDomainFields(cls) } ]

\* Arguments that vary what the wire form and the trace context read.
WireKwargs(cls) ==
    [ event_id : { Absent },
      event_type : IF cls = "EventEnvelope"
                   THEN { PyEnum("EventType", "goal.cancelled") }
                   ELSE { Missing },
      timestamp : { NoInt },
      source_service : { "orchestrator" },
      correlation_id : { Absent, None, "", "corr-1" },
      causation_id : { Absent, "evt-0" },
      topic : { "auto" },
      priority : { Missing },
      ttl : { NoInt },
      data : { EmptyDict },
      metadata : { EmptyDict },
      goal_state : { Absent },
      confidence : IF cls = "IntentEvent" THEN { <<5>> } ELSE { NoInt },
      given : { RequiredDomainFields(cls) } ]

\* Arguments that vary where the identifiers come from.
IdKwargs(cls) ==
    [ event_id : { Absent, "evt-1" },
      event_type : IF cls = "EventEnvelope"
                   THEN { PyEnum("EventType", "goal.cancelled") }
                   ELSE { Missing },
      timestamp : { NoInt },
      source_service : { "orchestrator" },
      correlation_id : { Absent, None },
      causation_id : { Absent },
      topic : { "auto" },
      priority : { Missing },
      ttl : { NoInt },
      data : { EmptyDict },
      metadata : { EmptyDict },
      goal_state : { Absent },
      confidence : { NoInt },
      given : { RequiredDomainFields(cls) } ]

\* Arguments of envelopes that differ in their class only; no identifier is generated.
MapsKwargs(cls) ==
    [ event_id : { "evt-1" },
      event_type : IF cls = "EventEnvelope"
                   THEN { PyEnum("EventType", "goal.cancelled") }
                   ELSE { Missing },
      timestamp : { NoInt },
      source_service : { "orchestrator" },
      correlation_id : { "corr-1" },
      causation_id : { Absent },
      topic : { "auto" },
      priority : { Missing },
      ttl : { NoInt },
      data : { EmptyDict },
      metadata : { EmptyDict },
      goal_state : { Absent },
      confidence : { NoInt },
      given : { RequiredDomainFields(cls) } ]

\* The keys and values callers put into data and metadata.
DictKeys == { "k", "j" }
DictValues == { "v", "w" }

\* The attributes callers assign, and the value they assign.
SetAttrNames == { "topic" }
SetAttrValues == { "reassigned" }

---------------------------------------------------------------------------
(* Specifications. *)

Init ==
    /\ envs = <<>>
    /\ now = 0
    /\ uuidCount = 0
    /\ last = [op |-> "none"]
    /\ health = [ pc |-> "idle", time |-> 0, calls |-> 0, deadline |-> 0,
                  started |-> 0, polls |-> 0, last_error |-> None,
                  resp |-> "none", result |-> [raised |-> "", value |-> "none"] ]

\* One construction, over every class and the full range of arguments.
NextConstruct ==
    /\ last.op = "none"
    /\ \E cls \in Classes : \E kwargs \in ConstructKwargs(cls) : Construct(cls, kwargs)

SpecConstruct == Init /\ [][NextConstruct]_vars

\* A constructor call while no envelope exists yet.
ConstructFirst ==
    /\ envs = <<>>
    /\ \E cls \in Classes : \E kwargs \in LifecycleKwargs(cls) : Construct(cls, kwargs)

\* The life of one envelope: constructed, then queried while time passes.
Next ==
    \/ ConstructFirst
    \/ \E i \in 1..Len(envs) : IsExpiredCall(i)
    \/ \E i \in 1..Len(envs) : ToRoutingKeyCall(i)
    \/ Tick

Spec == Init /\ [][Next]_vars

\* A constructor call while no envelope exists yet, with the wire arguments.
ConstructWire ==
    /\ envs = <<>>
    /\ \E cls \in Classes : \E kwargs \in WireKwargs(cls) : Construct(cls, kwargs)

AddMetadata ==
    \E i \in 1..Len(envs) : \E k \in DictKeys : \E v \in DictValues : AddMetadataCall(i, k, v)

AddData ==
    \E i \in 1..Len(envs) : \E k \in DictKeys : \E v \in DictValues : AddDataCall(i, k, v)

TraceContext == \E i \in 1..Len(envs) : TraceContextCall(i)

RoundTrip == \E i \in 1..Len(envs) : RoundTripCall(i)

SetAttr ==
    \E i \in 1..Len(envs) : \E n \in SetAttrNames : \E v \in SetAttrValues :
        SetAttrCall(i, n, v)

\* One envelope from producer to consumer: constructed, annotated, traced, serialized
\* and deserialized.
NextWire ==
    \/ ConstructWire
    \/ AddMetadata
    \/ AddData
    \/ TraceContext
    \/ RoundTrip
    \/ SetAttr

SpecWire == Init /\ [][NextWire]_vars

\* Several envelopes constructed one after the other.
NextIds ==
    /\ Len(envs) < MaxEnvs
    /\ \E cls \in Classes : \E kwargs \in IdKwargs(cls) : Construct(cls, kwargs)

SpecIds == Init /\ [][NextIds]_vars

\* Several envelopes, each constructed without data and metadata, and entries added
\* to the maps of any of them.
ConstructNext ==
    /\ Len(envs) < MaxEnvs
    /\ \E cls \in Classes : \E kwargs \in MapsKwargs(cls) : Construct(cls, kwargs)

NextMaps ==
    \/ ConstructNext
    \/ \E i \in 1..Len(envs) : AddMetadataCall(i, "k", "v")
    \/ \E i \in 1..Len(envs) : AddDataCall(i, "k", "v")

SpecMaps == Init /\ [][NextMaps]_vars

\* The smoke test calls wait_for_health for one service after the other.
WaitForHealth == \E timeout \in Timeouts : WaitForHealthCall(timeout)
Poll == \E resp \in StatusCodes \cup Exceptions : \E d \in GetDurations : Get(resp, d)
Sleeping == \E d \in SleepDurations : Sleep(d)

NextHealth ==
    \/ WaitForHealth
    \/ WhileTest
    \/ Poll
    \/ Sleeping

SpecHealth == Init /\ [][NextHealth]_vars

\* The thread that runs wait_for_health keeps running: each statement it has reached
\* is eventually executed.
SpecHealthFair ==
    SpecHealth /\ WF_vars(WhileTest) /\ WF_vars(Poll) /\ WF_vars(Sleeping)

---------------------------------------------------------------------------
(* Properties of construction, checked under SpecConstruct. *)

\* The last call was a constructor call that returned an envelope.
Constructed == last.op = "construct" /\ last.errors = {}

\* The envelope the last call constructed or was made on.
Subject == envs[last.idx]

\* The identifiers uuid.uuid4() has handed out so far.
Generated == { uuid4(n) : n \in 1..uuidCount }

\* C1: an envelope or variant constructed without a caller-supplied correlation_id
\* has a correlation_id that is not None and is a generated identifier.
C1_CorrelationIdGenerated ==
    (Constructed /\ last.kwargs.correlation_id = Absent)
        => (Subject.correlation_id # None /\ Subject.correlation_id \in Generated)

\* C2: constructed with topic exactly "auto" and an event_type that has an entry in
\* topic_mapping, the envelope's topic is the table's value for that event_type
\* (goal.created gives unison.goal.created, intent.received unison.intent.received).
C2_AutoTopicResolved ==
    (Constructed /\ last.kwargs.topic = "auto"
        /\ Subject.event_type.value \in DOMAIN topic_mapping)
        => /\ Subject.topic = topic_mapping[Subject.event_type.value]
           /\ Subject.topic = "unison." \o Subject.event_type.value
           /\ Subject.event_type.value = "goal.created"
                => Subject.topic = "unison.goal.created"
           /\ Subject.event_type.value = "intent.received"
                => Subject.topic = "unison.intent.received"

C2_Witness ==
    /\ Constructed
    /\ last.kwargs.topic = "auto"
    /\ last.kwargs.event_type = PyEnum("EventType", "goal.created")
    /\ Subject.topic = "unison.goal.created"

\* C3: whatever event_type and topic the caller supplied, the topic of a constructed
\* envelope or variant is never the sentinel "auto".
C3_TopicNeverAuto ==
    Constructed => Subject.topic # "auto"

\* The intent, context, goal, experience, service and system groups of EventType.
SixGroups ==
    IntentTypes \cup ContextTypes \cup GoalTypes \cup ExperienceTypes \cup SystemTypes

\* C4: for every EventType member of the intent, context, goal, experience, service
\* and system groups, construction with topic "auto" resolves the topic to a value of
\* the lookup table.
C4_TableCoversSixGroups ==
    (Constructed /\ last.kwargs.topic = "auto" /\ Subject.event_type.value \in SixGroups)
        => \E k \in DOMAIN topic_mapping : Subject.topic = topic_mapping[k]

\* C5: construction changes the supplied topic only when it is exactly "auto" and the
\* event_type has a table entry; in every other case the topic is the supplied one.
C5_TopicKeptVerbatim ==
    (Constructed /\ last.kwargs.topic # Absent)
        => \/ Subject.topic = last.kwargs.topic
           \/ /\ last.kwargs.topic = "auto"
              /\ Subject.event_type.value \in DOMAIN topic_mapping

\* "auto" with an event_type outside the table is kept as it is.
C5_Witness ==
    /\ Constructed
    /\ last.kwargs.topic = "auto"
    /\ Subject.event_type.value \notin DOMAIN topic_mapping
    /\ Subject.topic = "auto"

\* C10: a GoalEvent constructor call with a goal_state outside the five allowed states
\* fails on goal_state; with one of the five, or none, goal_state is accepted; so the
\* goal_state of every constructed GoalEvent is one of the five.
C10_GoalStateClosed ==
    /\ (last.op = "construct" /\ last.cls = "GoalEvent")
        => /\ last.kwargs.goal_state \notin allowed_states \cup { Absent }
                => ("goal_state" \in last.errors /\ last.idx = 0)
           /\ last.kwargs.goal_state \in allowed_states \cup { Absent }
                => "goal_state" \notin last.errors
    /\ \A i \in 1..Len(envs) :
            envs[i].cls = "GoalEvent" => envs[i].goal_state \in allowed_states

\* goal_state="bogus" is the one thing wrong with the call, and it fails.
C10_Witness ==
    /\ last.op = "construct"
    /\ last.cls = "GoalEvent"
    /\ last.kwargs.goal_state = "bogus"
    /\ last.errors = { "goal_state" }
    /\ envs = <<>>

\* C11: an IntentEvent constructor call with a confidence outside [0.0, 1.0] fails
\* on confidence (the value is not clamped); with a confidence inside the range,
\* bounds included, confidence is accepted and stored as supplied.
C11_ConfidenceRange ==
    (last.op = "construct" /\ last.cls = "IntentEvent" /\ last.kwargs.confidence # NoInt)
        => LET c == last.kwargs.confidence[1]
           IN  /\ (c < 0 \/ c > 10) => ("confidence" \in last.errors /\ envs = <<>>)
               /\ (c >= 0 /\ c <= 10) => "confidence" \notin last.errors
               /\ Constructed => Subject.confidence = last.kwargs.confidence

\* confidence=1.5 is the one thing wrong with the call, and it fails.
C11_Witness ==
    /\ last.op = "construct"
    /\ last.cls = "IntentEvent"
    /\ last.kwargs.confidence = <<15>>
    /\ last.errors = { "confidence" }
    /\ envs = <<>>

\* C14: a variant constructed without event_type and without topic has its canonical
\* event_type and the lookup table's topic for that type, not "auto".
C14_VariantDefaults ==
    (Constructed /\ last.cls # "EventEnvelope"
        /\ last.kwargs.event_type = Missing /\ last.kwargs.topic = Absent)
        => LET canonical ==
                   CASE last.cls = "IntentEvent" -> "intent.received"
                     [] last.cls = "ContextEvent" -> "context.updated"
                     [] last.cls = "ExperienceEvent" -> "experience.generated"
                     [] last.cls = "GoalEvent" -> "goal.created"
           IN  /\ Subject.event_type.value = canonical
               /\ Subject.topic = "unison." \o canonical
               /\ Subject.topic # "auto"

C14_Witness ==
    /\ Constructed
    /\ last.cls = "GoalEvent"
    /\ last.kwargs.event_type = Missing
    /\ last.kwargs.topic = Absent
    /\ Subject.topic = "unison.goal.created"

\* IntentEvent(person_id="u1", expression="hello"): nothing else is passed.
OnlyPersonAndExpression ==
    [ event_id |-> Absent, event_type |-> Missing, timestamp |-> NoInt,
      source_service |-> Absent, correlation_id |-> Absent, causation_id |-> Absent,
      topic |-> Absent, priority |-> Missing, ttl |-> NoInt, data |-> EmptyDict,
      metadata |-> EmptyDict, goal_state |-> Absent, confidence |-> NoInt,
      given |-> { "person_id", "expression" } ]

\* C15: IntentEvent(person_id="u1", expression="hello") succeeds and yields event_type
\* INTENT_RECEIVED, topic "unison.intent.received", a correlation_id that is not None
\* and confidence 0.0.
C15_MinimalIntentEvent ==
    (last.op = "construct" /\ last.cls = "IntentEvent"
        /\ last.kwargs = OnlyPersonAndExpression)
        => /\ Constructed
           /\ Subject.event_type.value = "intent.received"
           /\ Subject.topic = "unison.intent.received"
           /\ Subject.correlation_id # None
           /\ Subject.confidence = <<0>>

\* What is wrong with a constructor call, read off its arguments.
Defects(cls, kwargs) ==
    { f \in { "event_type", "source_service", "topic", "priority", "confidence",
              "goal_state" } :
        \/ f = "event_type" /\ kwargs.event_type = Missing /\ cls = "EventEnvelope"
        \/ f = "event_type" /\ kwargs.event_type # Missing
                /\ kwargs.event_type.value \notin EventType
        \/ f = "source_service" /\ kwargs.source_service = Absent
        \/ f = "topic" /\ kwargs.topic = Absent /\ cls = "EventEnvelope"
        \/ f = "priority" /\ cls # "GoalEvent" /\ kwargs.priority # Missing
                /\ kwargs.priority.value \notin EventPriority
        \/ f = "confidence" /\ cls = "IntentEvent" /\ kwargs.confidence # NoInt
                /\ (kwargs.confidence[1] < 0 \/ kwargs.confidence[1] > 10)
        \/ f = "goal_state" /\ cls = "GoalEvent"
                /\ kwargs.goal_state \notin allowed_states \cup { Absent } }
        \cup (RequiredDomainFields(cls) \ kwargs.given)

\* C16: construction is all or nothing: a call in which any field fails validation
\* raises an error that names every offending field and leaves no envelope, fully or
\* partly populated; a call with nothing wrong yields the envelope.
C16_AllOrNothing ==
    last.op = "construct"
        => /\ last.errors = Defects(last.cls, last.kwargs)
           /\ last.errors # {} => (envs = <<>> /\ last.idx = 0)
           /\ last.errors = {} => (Len(envs) = 1 /\ last.idx = 1)

\* Two fields are wrong at once; both are named and nothing is constructed.
C16_Witness ==
    /\ last.op = "construct"
    /\ last.cls = "IntentEvent"
    /\ last.errors = { "source_service", "confidence" }
    /\ envs = <<>>

---------------------------------------------------------------------------
(* Properties of expiry and routing, checked under Spec. *)

\* C6: for an envelope whose ttl is None, is_expired() returns False at every time.
C6_NoTtlNeverExpires ==
    (last.op = "is_expired" /\ Subject.ttl = NoInt)
        => (last.result.raised = "" /\ last.result.value = FALSE)

\* Asked MaxSeconds after the timestamp.
C6_Witness ==
    /\ last.op = "is_expired"
    /\ Subject.ttl = NoInt
    /\ now - Subject.timestamp = MaxTicks
    /\ last.result.value = FALSE

\* C7: for an envelope with a ttl, is_expired() is True exactly when the time since
\* the timestamp is strictly more than ttl seconds: with ttl 5 it is False 4 s and
\* exactly 5 s after the timestamp and True 6 s after it.
C7_ExpiredIffElapsedExceedsTtl ==
    (last.op = "is_expired" /\ Subject.ttl # NoInt)
        => LET ttl == Subject.ttl[1]
               elapsed == now - Subject.timestamp
           IN  /\ last.result.raised = ""
               /\ last.result.value <=> (elapsed > ttl * TicksPerSecond)
               /\ (ttl = 5 /\ elapsed = 4 * TicksPerSecond) => ~last.result.value
               /\ (ttl = 5 /\ elapsed = 5 * TicksPerSecond) => ~last.result.value
               /\ (ttl = 5 /\ elapsed = 6 * TicksPerSecond) => last.result.value

\* ttl 5, asked exactly 5 s after a timestamp set at construction: not expired.
C7_Witness ==
    /\ last.op = "is_expired"
    /\ Subject.ttl = <<5>>
    /\ Subject.timestamp > 0
    /\ now - Subject.timestamp = 5 * TicksPerSecond
    /\ last.result.value = FALSE

\* C8: is_expired() has no side effects: a call leaves every field of every envelope
\* unchanged, and a call repeated at the same time returns what the first returned.
C8_IsExpiredPure ==
    [][ last'.op = "is_expired"
            => /\ envs' = envs
               /\ last'.again => last'.result = last.result ]_vars

\* The call is made twice in a row on an envelope that has a ttl and has expired.
C8_Witness ==
    /\ last.op = "is_expired"
    /\ last.again
    /\ Subject.ttl # NoInt
    /\ last.result.value = TRUE

\* C9: to_routing_key() returns source_service + "." + the event type's value, for
\* orchestrator and INTENT_RECEIVED "orchestrator.intent.received"; it does not fail.
C9_RoutingKey ==
    last.op = "to_routing_key"
        => /\ last.result.raised = ""
           /\ last.result.value = Subject.source_service \o "." \o Subject.event_type.value

---------------------------------------------------------------------------
(* Properties of the wire form, the maps and the trace context, checked    *)
(* under SpecWire.                                                         *)

\* Field by field equality as Python compares: an enum member equals its value.
SameFields(a, b) ==
    /\ a.cls = b.cls
    /\ a.event_id = b.event_id
    /\ a.event_type.value = b.event_type.value
    /\ a.timestamp = b.timestamp
    /\ a.source_service = b.source_service
    /\ a.source_instance = b.source_instance
    /\ a.correlation_id = b.correlation_id
    /\ a.causation_id = b.causation_id
    /\ a.topic = b.topic
    /\ a.priority.value = b.priority.value
    /\ a.ttl = b.ttl
    /\ a.data = b.data
    /\ a.metadata = b.metadata
    /\ a.goal_state = b.goal_state
    /\ a.confidence = b.confidence
    /\ a.given = b.given

\* C12: serializing an envelope and deserializing the result as the same class gives
\* an envelope whose every field equals the original's; no identifier is regenerated.
C12_RoundTripIdentity ==
    last.op = "round_trip"
        => (last.errors = {} /\ SameFields(last.copy, Subject))

\* C13: after add_metadata(k, v) the serialized envelope has k: v under metadata, and
\* after add_data(k, v) it has k: v under data, whatever was added before.
C13_AddedEntrySerialized ==
    /\ last.op = "add_metadata"
        => LET wire == model_dump_json(Subject)
           IN  last.key \in DOMAIN wire.metadata /\ wire.metadata[last.key] = last.value
    /\ last.op = "add_data"
        => LET wire == model_dump_json(Subject)
           IN  last.key \in DOMAIN wire.data /\ wire.data[last.key] = last.value

\* add_metadata("k", "v") after entries under the other key went into both maps.
C13_Witness ==
    /\ last.op = "add_metadata"
    /\ last.key = "k"
    /\ last.value = "v"
    /\ "j" \in DOMAIN Subject.metadata
    /\ "j" \in DOMAIN Subject.data

\* An envelope without its two maps.
Frozen(e) == [e EXCEPT !.data = EmptyDict, !.metadata = EmptyDict]

\* C17: after construction every field other than data and metadata keeps its
\* constructed value, and data and metadata change only through add_data and
\* add_metadata.
C17_ImmutableExceptMaps ==
    [][ \A i \in 1..Len(envs) :
            /\ Frozen(envs'[i]) = Frozen(envs[i])
            /\ envs'[i].data # envs[i].data => last'.op = "add_data"
            /\ envs'[i].metadata # envs[i].metadata => last'.op = "add_metadata" ]_vars

TraceKeys ==
    { "event_id", "correlation_id", "causation_id", "source_service", "source_instance" }

\* C19 as stated: trace_context() returns exactly the five keys, correlation_id being
\* the envelope's or, if that is None, its event_id, and causation_id the envelope's
\* or "" if None; no value is None.
C19_TraceContextNoneOnly ==
    last.op = "trace_context"
        => /\ DOMAIN last.result = TraceKeys
           /\ last.result.event_id = Subject.event_id
           /\ last.result.correlation_id =
                IF Subject.correlation_id = None THEN Subject.event_id
                ELSE Subject.correlation_id
           /\ last.result.causation_id =
                IF Subject.causation_id = None THEN "" ELSE Subject.causation_id
           /\ last.result.source_service = Subject.source_service
           /\ last.result.source_instance = Subject.source_instance
           /\ \A k \in TraceKeys : last.result[k] # None

\* C19 amended: as above, but correlation_id falls back to the event_id when the
\* envelope's is None or the empty string; and the call leaves the envelope unchanged.
C19_TraceContext ==
    [][ last'.op = "trace_context"
            => LET e == envs[last'.idx]
                   result == last'.result
               IN  /\ envs' = envs
                   /\ DOMAIN result = TraceKeys
                   /\ result.event_id = e.event_id
                   /\ result.correlation_id =
                        IF e.correlation_id = None \/ e.correlation_id = ""
                        THEN e.event_id
                        ELSE e.correlation_id
                   /\ result.causation_id =
                        IF e.causation_id = None THEN "" ELSE e.causation_id
                   /\ result.source_service = e.source_service
                   /\ result.source_instance = e.source_instance
                   /\ \A k \in TraceKeys : result[k] # None ]_vars

\* Neither id was supplied: the trace carries the event_id twice and "" as the cause.
C19_Witness ==
    /\ last.op = "trace_context"
    /\ Subject.correlation_id = None
    /\ Subject.causation_id = None
    /\ last.result.correlation_id = Subject.event_id
    /\ last.result.causation_id = ""

\* C20: in the wire form the timestamp is an ISO-8601 string that ends in "Z".
C20_TimestampEndsInZ ==
    last.op = "round_trip" => last.wire.timestamp.suffix = "Z"

---------------------------------------------------------------------------
(* Properties of the identifiers, checked under SpecIds. *)

\* C18: an event_id is generated when none is supplied and differs from the event_id
\* of every envelope constructed before; a supplied event_id is kept.
C18_EventIdUnique ==
    Constructed
        => /\ last.kwargs.event_id # Absent => Subject.event_id = last.kwargs.event_id
           /\ last.kwargs.event_id = Absent
                => /\ Subject.event_id \in Generated
                   /\ \A k \in 1..(last.idx - 1) : envs[k].event_id # Subject.event_id

\* Two envelopes, both constructed without an event_id.
C18_Witness ==
    /\ Constructed
    /\ last.idx = 2
    /\ last.kwargs.event_id = Absent
    /\ envs[1].event_id \in Generated
    /\ envs[1].event_id # envs[2].event_id

---------------------------------------------------------------------------
(* Properties of the variants' own fields and defaults, checked under      *)
(* SpecConstruct.                                                          *)

\* C24: a variant constructed with a caller-supplied event_type and no topic keeps the
\* supplied event_type, and its topic is the lookup table's entry for the supplied
\* type, never the entry of the variant's canonical type (unless that was supplied).
C24_TopicFromSuppliedType ==
    (Constructed /\ last.cls # "EventEnvelope"
        /\ last.kwargs.event_type # Missing /\ last.kwargs.topic = Absent)
        => LET supplied == last.kwargs.event_type.value
           IN  /\ Subject.event_type.value = supplied
               /\ supplied \in DOMAIN topic_mapping
                    => Subject.topic = topic_mapping[supplied]
               /\ supplied # CanonicalType(last.cls)
                    => Subject.topic # topic_mapping[CanonicalType(last.cls)]

\* IntentEvent(event_type=EventType.INTENT_FAILED, ...) without a topic.
C24_Witness ==
    /\ Constructed
    /\ last.cls = "IntentEvent"
    /\ last.kwargs.event_type = PyEnum("EventType", "intent.failed")
    /\ last.kwargs.topic = Absent
    /\ Subject.event_type.value = "intent.failed"
    /\ Subject.topic = "unison.intent.failed"

\* C25: GoalEvent.priority is a free string defaulting to "normal": a GoalEvent is
\* accepted with any priority string, kept as given, whereas the base envelope and
\* the other variants reject a priority outside EventPriority.
C25_GoalPriorityFree ==
    last.op = "construct"
        => /\ last.cls = "GoalEvent" => "priority" \notin last.errors
           /\ (Constructed /\ last.cls = "GoalEvent")
                => Subject.priority =
                     PyStr(IF last.kwargs.priority = Missing THEN "normal"
                           ELSE last.kwargs.priority.value)
           /\ (last.cls # "GoalEvent" /\ last.kwargs.priority # Missing
                    /\ last.kwargs.priority.value
                         \notin { "low", "normal", "high", "critical", "urgent" })
                => "priority" \in last.errors

\* A GoalEvent constructed with a priority no EventPriority member has.
C25_Witness ==
    /\ Constructed
    /\ last.cls = "GoalEvent"
    /\ last.kwargs.priority = PyStr("bogus")
    /\ Subject.priority.value = "bogus"

---------------------------------------------------------------------------
(* Properties of wait_for_health, checked under SpecHealthFair. *)

HealthDone == health.pc \in { "returned", "raised" }

\* What wait_for_health has recorded of its most recent poll.
RecordedError ==
    IF health.polls = 0 THEN None
    ELSE IF health.resp \in StatusCodes THEN "status " \o health.resp
    ELSE health.resp

HealthSafe ==
    /\ health.pc = "returned"
        => /\ health.result = [raised |-> "", value |-> "True"]
           /\ health.resp = "200"
           /\ health.started < health.deadline
    /\ health.pc = "raised"
        => /\ health.result.raised = "AssertionError"
           /\ health.result.value = RecordedError
           /\ health.resp # "200"
           /\ health.time >= health.deadline
    /\ health.pc = "sleep"
        => /\ health.resp # "200"
           /\ health.last_error = RecordedError
    /\ health.result.raised = "" => health.result.value \in { "none", "True" }

\* C26: wait_for_health always terminates and returns nothing but True: it returns
\* True at the first poll answered with 200 that started before the deadline; a poll
\* that raises or answers another status is recorded as the last error and retried,
\* never propagated; past the deadline it raises AssertionError with the last error.
C26_WaitForHealth ==
    /\ []HealthSafe
    /\ (health.pc = "while") ~> HealthDone

\* The deadline passed after two failed polls, the last of them an exception.
C26_Witness ==
    /\ health.pc = "raised"
    /\ health.polls = 2
    /\ health.result = [raised |-> "AssertionError", value |-> "ReadTimeout"]

---------------------------------------------------------------------------
(* Further properties of expiry, checked under Spec. *)

\* C27: expiry is monotone in time: when is_expired() returns True it is True at every
\* later time, and when it returns False it was False at every earlier time at or
\* after the timestamp (ttl and timestamp unchanged).
C27_ExpiryMonotone ==
    last.op = "is_expired"
        => /\ last.result.value = TRUE
                => \A t \in now..MaxTicks : is_expired(Subject, t)
           /\ last.result.value = FALSE
                => \A t \in Subject.timestamp..now : ~is_expired(Subject, t)

\* Asked again well after the ttl ran out.
C27_Witness ==
    /\ last.op = "is_expired"
    /\ Subject.ttl = <<0>>
    /\ now - Subject.timestamp > 4 * TicksPerSecond
    /\ last.result.value = TRUE

\* C30: ttl is not range-checked: a call with ttl 0 or a negative ttl fails only for
\* what is wrong with its other arguments, and otherwise yields the envelope; with a negative ttl is_expired() is True from the timestamp onwards,
\* and with ttl 0 it is False at the exact timestamp and True once any time has passed.
C30_NonPositiveTtl ==
    /\ (last.op = "construct" /\ last.kwargs.ttl # NoInt /\ last.kwargs.ttl[1] <= 0)
        => /\ last.errors = Defects(last.cls, last.kwargs)
           /\ "ttl" \notin last.errors
           /\ Constructed => Subject.ttl = last.kwargs.ttl
    /\ (last.op = "is_expired" /\ Subject.ttl # NoInt /\ now >= Subject.timestamp)
        => /\ Subject.ttl[1] < 0 => last.result = Returned(TRUE)
           /\ Subject.ttl[1] = 0
                => last.result = Returned(now > Subject.timestamp)

\* ttl 0, asked one tick after the timestamp.
C30_Witness ==
    /\ last.op = "is_expired"
    /\ Subject.ttl = <<0>>
    /\ now = Subject.timestamp + 1
    /\ last.result = Returned(TRUE)

---------------------------------------------------------------------------
(* Further properties of the two maps, checked under SpecWire. *)

\* m is what dict d becomes by d[key] = value: key holds value, every other entry is
\* as it was, and nothing else was added or dropped.
ItemSet(d, m, key, value) ==
    /\ DOMAIN m = DOMAIN d \cup { key }
    /\ m[key] = value
    /\ \A other \in DOMAIN d \ { key } : m[other] = d[other]

\* C29: add_metadata(k, v) changes only metadata's entry for k (last write wins) and
\* leaves data, the other metadata entries and every other field as they were;
\* add_data(k, v) does the same for data; neither generates identifiers or resolves
\* the topic again.
C29_AddChangesOneEntry ==
    [][ /\ last'.op = "add_metadata"
            => /\ Len(envs') = Len(envs)
               /\ ItemSet(envs[last'.idx].metadata, envs'[last'.idx].metadata,
                          last'.key, last'.value)
               /\ envs'[last'.idx].data = envs[last'.idx].data
               /\ Frozen(envs'[last'.idx]) = Frozen(envs[last'.idx])
               /\ uuidCount' = uuidCount
        /\ last'.op = "add_data"
            => /\ Len(envs') = Len(envs)
               /\ ItemSet(envs[last'.idx].data, envs'[last'.idx].data,
                          last'.key, last'.value)
               /\ envs'[last'.idx].metadata = envs[last'.idx].metadata
               /\ Frozen(envs'[last'.idx]) = Frozen(envs[last'.idx])
               /\ uuidCount' = uuidCount ]_vars

\* add_data("k", "w") on an envelope whose data holds another key and whose
\* metadata holds "k" with another value.
C29_Witness ==
    /\ last.op = "add_data"
    /\ last.key = "k"
    /\ last.value = "w"
    /\ Subject.data = ("k" :> "w") @@ ("j" :> "v")
    /\ Subject.metadata = ("k" :> "v")
    /\ Subject.topic = "auto"

---------------------------------------------------------------------------
(* Properties of the maps of several envelopes, checked under SpecMaps. *)

\* C28: envelopes do not share their maps: an add_data or add_metadata call on one
\* envelope leaves the data and metadata of every other envelope as they were (empty,
\* if nothing was added to them), and an envelope's data is not its metadata.
C28_MapsNotShared ==
    [][ /\ \A i \in 1..Len(envs') : envs'[i].data_id # envs'[i].metadata_id
        /\ last'.op \in { "add_data", "add_metadata" }
            => /\ \A j \in (1..Len(envs)) \ { last'.idx } :
                    /\ envs'[j].data = envs[j].data
                    /\ envs'[j].metadata = envs[j].metadata
               /\ last'.op = "add_data"
                    => envs'[last'.idx].metadata = envs[last'.idx].metadata
               /\ last'.op = "add_metadata"
                    => envs'[last'.idx].data = envs[last'.idx].data ]_vars

\* Entries were added to both maps of the first envelope; the second has none.
C28_Witness ==
    /\ Len(envs) = 2
    /\ last.op = "add_metadata"
    /\ last.idx = 1
    /\ envs[1].data = ("k" :> "v")
    /\ envs[1].metadata = ("k" :> "v")
    /\ envs[2].data = EmptyDict
    /\ envs[2].metadata = EmptyDict

====
